---- MODULE Spec2Model ----
(***************************************************************************)
(* State-machine model of the liquid pouring interaction                   *)
(* (src/threejs-models/liquid-pouring.js): containers, liquid stream,      *)
(* interaction manager, pour manager, reset button and animation loop.     *)
(*                                                                         *)
(* Fixed-point units (all quantities are integers):                        *)
(*   angle     1 = 20 micro-radians, with pi taken as 3.1416 (Pi = 157080) *)
(*   time      1 = 0.01 s                                                  *)
(*   length    1 = 0.0001 scene units                                      *)
(*   velocity  1 = 0.01 scene units per second                             *)
(*   pour rate 1 = 1/3927 mL per second                                    *)
(*   volume    1 = 1/3927000 mL  (rate * time * 10)                        *)
(*   sine, cosine and random draws are scaled by 10000 / 1000              *)
(***************************************************************************)
EXTENDS Integers, Sequences, FiniteSets

VARIABLES containers, interactionManager, liquidStream, pourManager, deltaTime, trace, used,
          nuclearLab

vars == <<containers, interactionManager, liquidStream, pourManager, deltaTime, trace, used,
          nuclearLab>>

(***************************************************************************)
(* Numbers of the program, in the units above.                             *)
(***************************************************************************)
Pi == 157080
PiOver2 == Pi \div 2
PiOver4 == Pi \div 4
PourThreshold == Pi \div 6
TrigScale == 10000
mL == 3927000
RateUnit == 3927
maxVolume == 250 * mL
MaxPourRate == 60 * RateUnit
PourRateFactor == 80
PourEfficiencyTenths == 9
DeltaTimeCap == 10
rotationSpeed == 600
yawSpeed == 180
maxTilt == 86394
minTilt == -5000
maxDist == 80000
maxParticles == 150
gravity == -12
tableY == -18500
particleMaxLife == 250
splashMaxLife == 40
splashGravity == -15
returnDuration == 50
NoContainer == "null"
Names == {"Beaker", "Erlenmeyer"}
ContainerList == <<"Beaker", "Erlenmeyer">>

Abs(n) == IF n < 0 THEN -n ELSE n
Min(a, b) == IF a < b THEN a ELSE b
Max(a, b) == IF a > b THEN a ELSE b
\* integer quotient rounded toward zero (fixed-point stand-in for a real product)
Quot(a, b) == IF a >= 0 THEN a \div b ELSE -((-a) \div b)

RECURSIVE IsqrtFrom(_, _)
IsqrtFrom(n, r) == IF (r + 1) * (r + 1) > n THEN r ELSE IsqrtFrom(n, r + 1)
RECURSIVE IsqrtBetween(_, _, _)
IsqrtBetween(n, lo, hi) ==
    IF hi - lo <= 1 THEN IsqrtFrom(n, lo)
    ELSE LET mid == (lo + hi) \div 2
         IN  IF mid * mid <= n THEN IsqrtBetween(n, mid, hi) ELSE IsqrtBetween(n, lo, mid)
\* floor of the square root, for 0 <= n < 2^30
Isqrt(n) == IsqrtBetween(n, 0, 32768)

(***************************************************************************)
(* Sine and cosine (scaled by TrigScale) by range reduction to [0, pi/4]   *)
(* and Taylor polynomials.                                                 *)
(***************************************************************************)
SinSeries(x) ==
    LET q  == (x * x) \div 250000
        s0 == x \div 5
        s1 == (s0 * q) \div 60000
        s2 == (s1 * q) \div 200000
        s3 == (s2 * q) \div 420000
    IN  s0 - s1 + s2 - s3
CosSeries(x) ==
    LET q  == (x * x) \div 250000
        t1 == q \div 2
        t2 == (t1 * q) \div 120000
        t3 == (t2 * q) \div 300000
    IN  TrigScale - t1 + t2 - t3
SinQuarter(x) == IF x <= PiOver4 THEN SinSeries(x) ELSE CosSeries(PiOver2 - x)
\* the angle folded into (-pi, pi]
NormAngle(a) == LET m == (a + Pi) % (2 * Pi) IN IF m = 0 THEN Pi ELSE m - Pi
SinOfNorm(n) ==
    IF n < 0 THEN -(IF -n > PiOver2 THEN SinQuarter(Pi + n) ELSE SinQuarter(-n))
    ELSE IF n > PiOver2 THEN SinQuarter(Pi - n) ELSE SinQuarter(n)
CosOfAbs(m) == IF m > PiOver2 THEN -SinQuarter(m - PiOver2) ELSE SinQuarter(PiOver2 - m)
Sin(a) == SinOfNorm(NormAngle(a))
Cos(a) == CosOfAbs(Abs(NormAngle(a)))

Vec(x, y, z) == [x |-> x, y |-> y, z |-> z]
\* rotations about one axis by the angle with cosine c and sine s (scaled)
RotZ(v, c, s) == Vec(Quot(v.x * c - v.y * s, TrigScale), Quot(v.x * s + v.y * c, TrigScale), v.z)
RotY(v, c, s) == Vec(Quot(v.x * c + v.z * s, TrigScale), v.y, Quot(v.z * c - v.x * s, TrigScale))
RotX(v, c, s) == Vec(v.x, Quot(v.y * c - v.z * s, TrigScale), Quot(v.y * s + v.z * c, TrigScale))
\* Vector3.applyEuler for the default order XYZ (matrix Rx * Ry * Rz)
ApplyEuler(rot, v) ==
    RotX(RotY(RotZ(v, Cos(rot.z), Sin(rot.z)), Cos(rot.y), Sin(rot.y)),
         Cos(rot.x), Sin(rot.x))

(***************************************************************************)
(* LiquidContainer.  A container is a record                               *)
(*   [name, currentVolume, position, rotation, isDragging]                 *)
(* position and rotation are those of container.group.                     *)
(***************************************************************************)
\* Beaker: (topRadius + 0.1, height + 0.1, 0); flask: (0, bodyHeight + neckHeight + 0.15, neckRadius)
pourSpoutOffset(name) ==
    IF name = "Beaker" THEN Vec(14500, 33000, 0) ELSE Vec(0, 39500, 3200)

AddVec(a, b) == Vec(a.x + b.x, a.y + b.y, a.z + b.z)

getPourSpoutWorldPosition(c) ==
    AddVec(c.position, ApplyEuler(c.rotation, pourSpoutOffset(c.name)))

\* the angle folded into (-pi, pi] but not into [0, pi]
AcosOfCosSigned(a) == NormAngle(a)
\* Math.acos(Math.max(-1, Math.min(1, d))) for d = cos(a): a folded into [0, pi]
AcosOfCos(a) == Abs(NormAngle(a))

\* up . (quaternion applied to up) is cos(rotation.z): rotation.x is 0 in every
\* state (RotationXIsZero), so the rotated up axis is (-sin z cos y, cos z, sin z sin y)
getTiltAngle(c) == AcosOfCos(c.rotation.z)

canPourAtThreshold(c) == getTiltAngle(c) >= PourThreshold /\ c.currentVolume > 0
canPour(c) == getTiltAngle(c) > PourThreshold /\ c.currentVolume > 0

\* normalizedTilt * 80 in rate units: (tilt - pi/6) / (pi/2) * 80 * RateUnit
RatePerAngle == (PourRateFactor * RateUnit) \div PiOver2
getPourRateUncapped(c) ==
    LET tilt == getTiltAngle(c)
    IN  IF tilt < PourThreshold THEN 0 ELSE (tilt - PourThreshold) * RatePerAngle
getPourRate(c) ==
    LET tilt == getTiltAngle(c)
    IN  IF tilt < PourThreshold THEN 0
        ELSE Min((tilt - PourThreshold) * RatePerAngle, MaxPourRate)

setVolumeNoFloor(c, volume) == [c EXCEPT !.currentVolume = Min(maxVolume, volume)]
setVolume(c, volume) == [c EXCEPT !.currentVolume = Max(0, Min(maxVolume, volume))]

addVolume(c, amount) == setVolume(c, c.currentVolume + amount)

(***************************************************************************)
(* LiquidStream.  The stream is a record                                   *)
(*   [isActive, sourceContainer, targetContainer, streamTube, particles,   *)
(*    splashParticles]                                                     *)
(* streamTube is TRUE when a tube mesh exists.  A droplet is               *)
(*   [position, velocity, life, maxLife, hasHit], a splash particle        *)
(*   [position, velocity, life, maxLife].                                  *)
(* The draws of Math.random() of one frame are the record rnd              *)
(*   [spawn, jitter, splashCount, splash], each in 0..999 (thousandths):   *)
(* spawn is the draw compared with spawnChance, jitter the draw of the     *)
(* four spawn offsets, splashCount the draw of numSplashParticles and      *)
(* splash the draw of the splash velocities.                               *)
(***************************************************************************)
start(stream, source, target) ==
    [stream EXCEPT !.isActive = TRUE, !.sourceContainer = source, !.targetContainer = target]

\* a stop that leaves the stream tube in the scene
stopKeepsTube(stream) ==
    [stream EXCEPT !.isActive = FALSE, !.sourceContainer = NoContainer,
                   !.targetContainer = NoContainer]
stop(stream) ==
    [stream EXCEPT !.isActive = FALSE, !.sourceContainer = NoContainer,
                   !.targetContainer = NoContainer, !.streamTube = FALSE]

\* a clear that leaves the droplets in flight
clearSplashes(stream) == [stream EXCEPT !.splashParticles = <<>>, !.streamTube = FALSE]
clear(stream) ==
    [stream EXCEPT !.particles = <<>>, !.splashParticles = <<>>, !.streamTube = FALSE]

\* numSplashParticles splash particles at position
createSplash(position, rnd) ==
    LET numSplashParticles == 3 + ((rnd.splashCount * 3) \div 1000)
        splash == [position |-> position,
                   velocity |-> Vec(Quot(rnd.splash - 500, 5),
                                    Quot(rnd.splash * 3, 20) + 50,
                                    Quot(rnd.splash - 500, 5)),
                   life |-> 0, maxLife |-> splashMaxLife]
    IN  [i \in 1..numSplashParticles |-> splash]

stepSplash(p, dt) ==
    LET vy == p.velocity.y + splashGravity * dt
    IN  [p EXCEPT !.velocity.y = vy,
                  !.position = Vec(p.position.x + p.velocity.x * dt,
                                   p.position.y + vy * dt,
                                   p.position.z + p.velocity.z * dt),
                  !.life = p.life + dt]

SplashAlive(p) == p.life < p.maxLife

updateSplashParticles(splashParticles, dt) ==
    SelectSeq([i \in 1..Len(splashParticles) |-> stepSplash(splashParticles[i], dt)],
              SplashAlive)

spawnChanceTimes100000(tiltAngle) == 60000 + (tiltAngle - PourThreshold)

\* the droplet pushed by update() when the spawn test passes: spoutPos, speed,
\* the normalised pour direction (length len before normalising) and the jitter
particleAt(spoutPos, speed, dir, len, jitter) ==
    [position |-> Vec(spoutPos.x + Quot(jitter - 500, 2),
                      spoutPos.y,
                      spoutPos.z + Quot(jitter - 500, 2)),
     velocity |-> Vec(Quot(dir.x * speed, len) + Quot(jitter - 500, 25),
                      Quot(dir.y * speed, len),
                      Quot(dir.z * speed, len) + Quot(jitter - 500, 25)),
     life |-> 0, maxLife |-> particleMaxLife, hasHit |-> FALSE]
VecLength(v) == Isqrt(v.x * v.x + v.y * v.y + v.z * v.z)
particleAlong(spoutPos, speed, dir, jitter) ==
    particleAt(spoutPos, speed, dir, VecLength(dir), jitter)
\* pourDir.y = -0.2
withPourY(dir) == Vec(dir.x, -2000, dir.z)
newParticle(source, rnd) ==
    particleAlong(getPourSpoutWorldPosition(source),
                  150 + Quot(getTiltAngle(source) * 3, 1000),
                  withPourY(ApplyEuler(source.rotation, Vec(TrigScale, 0, 0))),
                  rnd.jitter)

\* gravity, position and life of one droplet
integrate(p, dt) ==
    LET vy == p.velocity.y + gravity * dt
    IN  [p EXCEPT !.velocity.y = vy,
                  !.position = Vec(p.position.x + p.velocity.x * dt,
                                   p.position.y + vy * dt,
                                   p.position.z + p.velocity.z * dt),
                  !.life = p.life + dt]

\* horizontalDist < containerRadius && y < containerTop && y > containerBottom
insideTarget(target, position) ==
    LET dx == Abs(position.x - target.position.x)
        dz == Abs(position.z - target.position.z)
        containerBottom == target.position.y
        containerTop == target.position.y + (IF target.name = "Beaker" THEN 33000 ELSE 39000)
        rise == position.y - containerBottom
        containerRadius == IF target.name = "Beaker" THEN 13000
                           ELSE IF rise * 10 > 7 * 39000 THEN 3500
                           ELSE 15000 - Quot(rise * 5, 26)
    IN  /\ position.y < containerTop
        /\ position.y > containerBottom
        /\ dx < containerRadius
        /\ dz < containerRadius
        /\ dx * dx + dz * dz < containerRadius * containerRadius

\* one droplet through the loop body: [p, tested, hit, removed, floorSplash]
settle(r, tested, hit) ==
    [p |-> r, tested |-> tested, hit |-> hit,
     removed |-> r.life >= r.maxLife \/ r.position.y < tableY,
     floorSplash |-> /\ (r.life >= r.maxLife \/ r.position.y < tableY)
                     /\ r.position.y < tableY /\ ~r.hasHit]
\* a hit that leaves the droplet its age
collideKeepsAge(q, tested, hit) ==
    settle(IF hit THEN [q EXCEPT !.hasHit = TRUE] ELSE q, tested, hit)
collide(q, tested, hit) ==
    settle(IF hit THEN [q EXCEPT !.hasHit = TRUE, !.life = q.maxLife] ELSE q, tested, hit)
\* the collision test made whether or not the stream has a target
testTargetAlways(q, target, hasTarget) ==
    collide(q, ~q.hasHit, ~q.hasHit /\ insideTarget(target, q.position))
testTarget(q, target, hasTarget) ==
    collide(q, hasTarget /\ ~q.hasHit,
            hasTarget /\ ~q.hasHit /\ insideTarget(target, q.position))
stepParticle(p, target, hasTarget, dt) == testTarget(integrate(p, dt), target, hasTarget)

NotRemoved(s) == ~s.removed
ParticleOf(stepped) == [i \in 1..Len(stepped) |-> stepped[i].p]

\* the splash burst of one droplet of the pass, if it made one
burstOf(s, rnd) ==
    IF s.hit THEN createSplash(s.p.position, rnd)
    ELSE IF s.floorSplash
         THEN createSplash(Vec(s.p.position.x, tableY, s.p.position.z), rnd)
         ELSE <<>>

\* the splash bursts of the droplets lo..hi of one pass, in loop order (last
\* droplet first); the range is halved to keep the evaluation shallow
RECURSIVE bursts(_, _, _, _)
bursts(stepped, lo, hi, rnd) ==
    IF lo > hi THEN <<>>
    ELSE IF lo = hi THEN burstOf(stepped[lo], rnd)
    ELSE bursts(stepped, (lo + hi) \div 2 + 1, hi, rnd)
            \o bursts(stepped, lo, (lo + hi) \div 2, rnd)

Count(stepped, Test(_)) == Cardinality({i \in 1..Len(stepped) : Test(stepped[i])})
IsHit(s) == s.hit
IsFloorSplash(s) == s.floorSplash
IsTested(s) == s.tested

spawnBelowCapOrAtCap(stream) == Len(stream.particles) <= maxParticles
spawnBelowCap(stream) == Len(stream.particles) < maxParticles

\* the loop over the droplets and updateSplashParticles
finishUpdate(stream, tube, stepped, spawned, dt, rnd) ==
    [stream |-> [stream EXCEPT
                    !.streamTube = tube,
                    !.particles = ParticleOf(SelectSeq(stepped, NotRemoved)),
                    !.splashParticles =
                        updateSplashParticles(
                            stream.splashParticles \o bursts(stepped, 1, Len(stepped), rnd), dt)],
     spawned |-> spawned,
     tested |-> Count(stepped, IsTested),
     targetSplashes |-> Count(stepped, IsHit),
     floorSplashes |-> Count(stepped, IsFloorSplash)]

stepAll(stream, tube, particles, spawned, target, hasTarget, dt, rnd) ==
    finishUpdate(stream, tube,
                 [i \in 1..Len(particles) |-> stepParticle(particles[i], target, hasTarget, dt)],
                 spawned, dt, rnd)

spawnAndStep(stream, source, tiltAngle, spawn, target, hasTarget, dt, rnd) ==
    stepAll(stream,
            IF tiltAngle > PourThreshold THEN TRUE ELSE stream.streamTube,
            IF spawn THEN Append(stream.particles, newParticle(source, rnd))
            ELSE stream.particles,
            IF spawn THEN 1 ELSE 0,
            target, hasTarget, dt, rnd)

updateActive(stream, source, tiltAngle, target, hasTarget, dt, rnd) ==
    spawnAndStep(stream, source, tiltAngle,
                 /\ spawnBelowCap(stream)
                 /\ rnd.spawn * 100 < spawnChanceTimes100000(tiltAngle),
                 target, hasTarget, dt, rnd)

\* LiquidStream.update: [stream, spawned, tested, targetSplashes, floorSplashes]
updateStream(stream, cs, dt, rnd) ==
    IF ~stream.isActive \/ stream.sourceContainer = NoContainer
    THEN [stream |-> stream, spawned |-> 0, tested |-> 0,
          targetSplashes |-> 0, floorSplashes |-> 0]
    ELSE updateActive(stream, cs[stream.sourceContainer],
                      getTiltAngle(cs[stream.sourceContainer]),
                      IF stream.targetContainer # NoContainer
                      THEN cs[stream.targetContainer] ELSE cs[stream.sourceContainer],
                      stream.targetContainer # NoContainer, dt, rnd)

(***************************************************************************)
(* InteractionManager.  The manager is a record                            *)
(*   [selectedContainer, isDragging, lastMouseX, lastMouseY,               *)
(*    initialMouseY,                                                       *)
(*    dragOffset, returnAnimations]                                        *)
(* returnAnimations maps each container to NoAnimation or to               *)
(*   [startRotation, targetRotation, progress, duration]                   *)
(* with progress counted in hundredths of a second (progress >= duration   *)
(* is the code's progress >= 1).  The ray cast of a pointer event is an    *)
(* input: the container hit (or none) and the point where the ray meets    *)
(* the drag plane.                                                         *)
(***************************************************************************)
NoAnimation == [progress |-> -1]

\* the entry of a container is left in the map
keepReturnAnimation(im, name) == im
\* this.returnAnimations.delete(container)
deleteReturnAnimation(im, name) == [im EXCEPT !.returnAnimations[name] = NoAnimation]

\* a release that starts no animation
noReturnAnimation(im, c) == im
startReturnAnimation(im, c) ==
    [im EXCEPT !.returnAnimations[c.name] =
        [startRotation |-> c.rotation,
         targetRotation |-> Vec(0, c.rotation.y, 0),
         progress |-> 0,
         duration |-> returnDuration]]

\* the interpolation run twice as far, past its end value
lerpOvershoot(a, b, t) == a + Quot((b - a) * t, 500)
\* THREE.MathUtils.lerp(a, b, t) for t in thousandths
lerp(a, b, t) == a + Quot((b - a) * t, 1000)

\* 1 - (1 - progress)^3 in thousandths
easeOut(anim) ==
    LET k == anim.duration - anim.progress
    IN  1000 - ((k * k * k * 1000) \div (anim.duration * anim.duration * anim.duration))

\* one entry of the loop of InteractionManager.update, progress already advanced
advance(c, a) ==
    IF a.progress >= a.duration
    THEN [container |-> [c EXCEPT !.rotation = a.targetRotation], anim |-> NoAnimation]
    ELSE [container |-> [c EXCEPT
              !.rotation.x = lerp(a.startRotation.x, a.targetRotation.x, easeOut(a)),
              !.rotation.z = lerp(a.startRotation.z, a.targetRotation.z, easeOut(a))],
          anim |-> a]
stepAnimation(c, anim, dt) ==
    IF anim = NoAnimation THEN [container |-> c, anim |-> anim]
    ELSE advance(c, [anim EXCEPT !.progress = anim.progress + dt])

(***************************************************************************)
(* PourManager.  [pouringContainer]                                        *)
(***************************************************************************)
isTargetFor(container, sourcePos) ==
    LET targetPos == container.position
        dx == Abs(sourcePos.x - targetPos.x)
        dz == Abs(sourcePos.z - targetPos.z)
        reach == IF container.name = "Beaker" THEN 20250 ELSE 4800
        containerTop == targetPos.y + (IF container.name = "Beaker" THEN 33000 ELSE 39000)
    IN  /\ dx < reach
        /\ dz < reach
        /\ dx * dx + dz * dz < reach * reach
        /\ sourcePos.y > containerTop - 10000

RECURSIVE firstTarget(_, _, _)
firstTarget(cs, source, i) ==
    IF i > Len(ContainerList) THEN NoContainer
    ELSE LET name == ContainerList[i]
         IN  IF name # source /\ isTargetFor(cs[name], getPourSpoutWorldPosition(cs[source]))
             THEN name
             ELSE firstTarget(cs, source, i + 1)

findTargetContainer(cs, source) == firstTarget(cs, source, 1)

\* the first container that can pour, held or not
RECURSIVE firstCanPour(_, _)
firstCanPour(cs, i) ==
    IF i > Len(ContainerList) THEN NoContainer
    ELSE IF canPour(cs[ContainerList[i]]) THEN ContainerList[i]
         ELSE firstCanPour(cs, i + 1)

RECURSIVE firstPouring(_, _)
firstPouring(cs, i) ==
    IF i > Len(ContainerList) THEN NoContainer
    ELSE IF canPour(cs[ContainerList[i]]) /\ cs[ContainerList[i]].isDragging
         THEN ContainerList[i]
         ELSE firstPouring(cs, i + 1)

\* the rate taken as the amount of one second, whatever the frame's time
amountOfOneSecond(pourRate, dt) == pourRate * 1000
\* amountPoured = pourRate * deltaTime, in volume units
amountOf(pourRate, dt) == pourRate * dt * 10
\* amountPoured * 0.9
creditedFull(amountPoured) == amountPoured
credited(amountPoured) == (amountPoured \div 10) * PourEfficiencyTenths

\* the branch of PourManager.update that found a pouring container
transfer(cs, stream, active, target, pourRate, amountPoured) ==
    [containers |->
        IF target # NoContainer
        THEN [cs EXCEPT ![active] = addVolume(@, -amountPoured),
                        ![target] = addVolume(@, credited(amountPoured))]
        ELSE [cs EXCEPT ![active] = addVolume(@, -amountPoured)],
     stream |-> [(IF ~stream.isActive THEN start(stream, active, target) ELSE stream)
                    EXCEPT !.targetContainer = target],
     pouringContainer |-> active,
     target |-> target,
     pourRate |-> pourRate,
     amountPoured |-> amountPoured]

pourFrom(cs, stream, dt, active, pourRate) ==
    transfer(cs, stream, active, findTargetContainer(cs, active), pourRate,
             amountOf(pourRate, dt))

pourOrStop(cs, stream, dt, active) ==
    IF active # NoContainer
    THEN pourFrom(cs, stream, dt, active, getPourRate(cs[active]))
    ELSE [containers |-> cs,
          stream |-> IF stream.isActive THEN stop(stream) ELSE stream,
          pouringContainer |-> NoContainer,
          target |-> NoContainer,
          pourRate |-> 0,
          amountPoured |-> 0]

\* PourManager.update up to the stream's particle update:
\* [containers, stream, pouringContainer, target, pourRate, amountPoured]
pour(cs, stream, dt) == pourOrStop(cs, stream, dt, firstPouring(cs, 1))

(***************************************************************************)
(* The program: construction, event handlers, reset button, frame loop.    *)
(* trace records what the last step did (the operation and, for a frame,   *)
(* the values computed inside it); no step reads it.                       *)
(***************************************************************************)
NoTrace(op) ==
    [op |-> op, gap |-> 0, source |-> NoContainer, target |-> NoContainer,
     streamSource |-> NoContainer,
     pourRate |-> 0, amountPoured |-> 0,
     before |-> [n \in Names |-> 0],
     particlesBefore |-> 0, spawned |-> 0, tested |-> 0,
     targetSplashes |-> 0, floorSplashes |-> 0,
     request |-> 0,
     api |-> [n \in Names |-> [tiltAngle |-> 0, canPour |-> FALSE, pourRate |-> 0]]]

newContainer(name, initialVolume, x) ==
    [name |-> name, currentVolume |-> initialVolume, position |-> Vec(x, -19000, 0),
     rotation |-> Vec(0, 0, 0), isDragging |-> FALSE]

newLiquidStream ==
    [isActive |-> FALSE, sourceContainer |-> NoContainer, targetContainer |-> NoContainer,
     streamTube |-> FALSE, particles |-> <<>>, splashParticles |-> <<>>]

newInteractionManager ==
    [selectedContainer |-> NoContainer, isDragging |-> FALSE, lastMouseX |-> 0,
     lastMouseY |-> 0, initialMouseY |-> 0, dragOffset |-> [x |-> 0, z |-> 0],
     returnAnimations |-> [n \in Names |-> NoAnimation]]

(***************************************************************************)
(* The nuclear reactions lab (src/unnamed/part_000, class NuclearLab): the *)
(* displayed nucleus, the reaction select, the fission button, the reset   *)
(* button, the render loop, the frame callbacks of the running fission     *)
(* animations and their delayed timers.  The orbit drag of the nucleus,    *)
(* the quiz and the level buttons are left out.                            *)
(*                                                                         *)
(* Time is in milliseconds, progress in thousandths of an animation and    *)
(* rotation in 0.001 rad.  A particle's index is one more than in the code.*)
(***************************************************************************)
NucleusNames == {"U-235", "Ba-141", "Kr-92", "Pu-239"}

nuclei ==
    [n \in NucleusNames |->
        CASE n = "U-235" -> [symbol |-> "U-235", name |-> "Uranium", Z |-> 92, N |-> 143, A |-> 235]
          [] n = "Ba-141" -> [symbol |-> "Ba-141", name |-> "Barium", Z |-> 56, N |-> 85, A |-> 141]
          [] n = "Kr-92" -> [symbol |-> "Kr-92", name |-> "Krypton", Z |-> 36, N |-> 56, A |-> 92]
          [] n = "Pu-239" -> [symbol |-> "Pu-239", name |-> "Plutonium", Z |-> 94, N |-> 145, A |-> 239]]

ReactionNames == {"u235-fission", "pu239-fission"}

fissionReactions ==
    [r \in ReactionNames |->
        IF r = "u235-fission"
        THEN [parent |-> "U-235", products |-> <<"Ba-141", "Kr-92">>, neutrons |-> 3,
              equation |-> "U-235 -> Ba-141 + Kr-92 + 3n"]
        ELSE [parent |-> "Pu-239", products |-> <<"Ba-144", "Kr-89">>, neutrons |-> 3,
              equation |-> "Pu-239 -> Ba-144 + Kr-89 + 3n"]]

\* the length of the fission animation and the delay after its last frame
duration == 2000
releaseDelay == 500
\* what one frame of the render loop adds to the nucleus group's rotation
idleRotation == 3

\* a new particle: the first Z are protons; moved is what the last animation
\* frame did with its position
newNucleon(isProton) == [isProton |-> isProton, moved |-> "rest"]

createNucleus(lab, nucleusType) ==
    IF nucleusType \notin NucleusNames THEN lab
    ELSE [lab EXCEPT
            !.particles = [i \in 1..(nuclei[nucleusType].Z + nuclei[nucleusType].N) |->
                              newNucleon(i <= nuclei[nucleusType].Z)],
            !.rotationY = 0,
            !.currentNucleus = nucleusType]

updateUI(lab, nucleusType) ==
    IF nucleusType \notin NucleusNames THEN lab
    ELSE [lab EXCEPT
            !.nucleusSymbol = <<nuclei[nucleusType].symbol>>,
            !.nucleusDetails = [names |-> <<nuclei[nucleusType].name>>, neutrons |-> 0]]

\* the lab after the constructor and init(); the select shows the reaction of
\* the nucleus that init() creates
newNuclearLab ==
    updateUI(createNucleus([particles |-> <<>>,
                            rotationY |-> 0,
                            currentNucleus |-> "null",
                            isAnimating |-> FALSE,
                            reactionSelect |-> "u235-fission",
                            equationText |-> "",
                            nucleusSymbol |-> <<>>,
                            nucleusDetails |-> [names |-> <<>>, neutrons |-> 0],
                            productLabels |-> <<>>,
                            energyBurst |-> FALSE,
                            sequences |-> <<>>,
                            timers |-> <<>>,
                            now |-> 0,
                            started |-> 0],
                           "U-235"),
             "U-235")

Init ==
    /\ containers = [n \in Names |->
                        IF n = "Beaker" THEN newContainer(n, 150 * mL, -25000)
                        ELSE newContainer(n, 100 * mL, 25000)]
    /\ interactionManager = newInteractionManager
    /\ liquidStream = newLiquidStream
    /\ pourManager = [pouringContainer |-> NoContainer]
    /\ deltaTime = 0
    /\ trace = NoTrace("init")
    /\ used = [events |-> 0, frames |-> 0]
    /\ nuclearLab = newNuclearLab

\* mousedown: button, the container the ray hits (or NoContainer), the pointer's
\* client coordinates and the point where the ray meets the drag plane
onMouseDown(button, hit, clientX, clientY, point) ==
    /\ IF button # 0 \/ hit = NoContainer
       THEN UNCHANGED <<containers, interactionManager>>
       ELSE /\ containers' = [containers EXCEPT ![hit].isDragging = TRUE]
            /\ interactionManager' =
                 [deleteReturnAnimation(interactionManager, hit) EXCEPT
                    !.selectedContainer = hit,
                    !.isDragging = TRUE,
                    !.dragOffset = [x |-> point.x - containers[hit].position.x,
                                    z |-> point.z - containers[hit].position.z],
                    !.lastMouseX = clientX,
                    !.lastMouseY = clientY,
                    !.initialMouseY = clientY]
    /\ trace' = NoTrace("onMouseDown")
    /\ UNCHANGED <<liquidStream, pourManager, deltaTime, nuclearLab>>

\* the tilt taken from the pointer as it is
unclampedTilt(targetTilt) == targetTilt
clampedTilt(targetTilt) == Max(minTilt, Min(maxTilt, targetTilt))

clampToTable(v) == Max(-maxDist, Min(maxDist, v))

\* mousemove while dragging; otherwise only hover feedback (the cursor), not modelled
onMouseMove(clientX, clientY, point) ==
    /\ IF interactionManager.isDragging /\ interactionManager.selectedContainer # NoContainer
       THEN LET sel == interactionManager.selectedContainer
                deltaX == clientX - interactionManager.lastMouseX
                totalDeltaY == clientY - interactionManager.initialMouseY
                targetX == point.x - interactionManager.dragOffset.x
                targetZ == point.z - interactionManager.dragOffset.z
                targetTilt == -totalDeltaY * rotationSpeed
            IN  /\ containers' =
                     [containers EXCEPT
                        ![sel].position.x = clampToTable(targetX),
                        ![sel].position.z = clampToTable(targetZ),
                        ![sel].rotation = Vec(0,
                                              containers[sel].rotation.y + deltaX * yawSpeed,
                                              clampedTilt(targetTilt))]
                /\ interactionManager' =
                     [deleteReturnAnimation(interactionManager, sel) EXCEPT
                        !.lastMouseX = clientX,
                        !.lastMouseY = clientY]
       ELSE UNCHANGED <<containers, interactionManager>>
    /\ trace' = NoTrace("onMouseMove")
    /\ UNCHANGED <<liquidStream, pourManager, deltaTime, nuclearLab>>

\* mouseup and mouseleave
onMouseUp ==
    /\ IF interactionManager.selectedContainer # NoContainer
       THEN LET sel == interactionManager.selectedContainer
            IN  /\ interactionManager' =
                     [startReturnAnimation(interactionManager, containers[sel]) EXCEPT
                        !.selectedContainer = NoContainer,
                        !.isDragging = FALSE]
                /\ containers' = [containers EXCEPT ![sel].isDragging = FALSE]
       ELSE /\ interactionManager' = [interactionManager EXCEPT !.isDragging = FALSE]
            /\ UNCHANGED containers
    /\ trace' = NoTrace("onMouseUp")
    /\ UNCHANGED <<liquidStream, pourManager, deltaTime, nuclearLab>>

\* the click handler of the reset button
resetClick ==
    /\ containers' =
         [n \in Names |->
            LET placed == [containers[n] EXCEPT
                             !.position = Vec(IF n = "Beaker" THEN -25000 ELSE 25000, -19000, 0),
                             !.rotation = Vec(0, 0, 0)]
            IN  setVolume(placed, IF n = "Beaker" THEN 150 * mL ELSE 100 * mL)]
    /\ liquidStream' = stop(clear(liquidStream))
    /\ trace' = [NoTrace("resetClick") EXCEPT
                    !.before = [n \in Names |-> containers[n].currentVolume]]
    /\ UNCHANGED <<interactionManager, pourManager, deltaTime, nuclearLab>>

\* Math.min((currentTime - lastTime) / 1000, 0.1)
\* the gap between two frames as it is
uncappedDelta(gap) == gap
cappedDelta(gap) == Min(gap, DeltaTimeCap)

\* the effects of one frame: stepped is the result of InteractionManager.update,
\* pr of PourManager.update before the particles, us of LiquidStream.update
commitFrame(gap, dt, stepped, pr, us) ==
    /\ deltaTime' = dt
    /\ interactionManager' =
         [interactionManager EXCEPT
            !.returnAnimations = [n \in Names |-> stepped[n].anim]]
    /\ containers' = pr.containers
    /\ pourManager' = [pouringContainer |-> pr.pouringContainer]
    /\ liquidStream' = us.stream
    /\ trace' = [NoTrace("animate") EXCEPT
                    !.gap = gap,
                    !.source = pr.pouringContainer,
                    !.target = pr.target,
                    !.streamSource = pr.stream.sourceContainer,
                    !.pourRate = pr.pourRate,
                    !.amountPoured = pr.amountPoured,
                    !.before = [n \in Names |-> containers[n].currentVolume],
                    !.particlesBefore = Len(liquidStream.particles),
                    !.spawned = us.spawned,
                    !.tested = us.tested,
                    !.targetSplashes = us.targetSplashes,
                    !.floorSplashes = us.floorSplashes]
    /\ UNCHANGED nuclearLab

streamFrame(gap, dt, rnd, stepped, pr) ==
    commitFrame(gap, dt, stepped, pr, updateStream(pr.stream, pr.containers, dt, rnd))

pourFrame(gap, dt, rnd, stepped) ==
    streamFrame(gap, dt, rnd, stepped,
                pour([n \in Names |-> stepped[n].container], liquidStream, dt))

frame(gap, dt, rnd) ==
    pourFrame(gap, dt, rnd,
              [n \in Names |->
                  stepAnimation(containers[n], interactionManager.returnAnimations[n], dt)])

\* one call of animate(): gap is currentTime - lastTime, rnd the frame's random draws
animate(gap, rnd) == frame(gap, cappedDelta(gap), rnd)

(***************************************************************************)
(* Inputs.  A pointer-down is the pair <<container hit, clientY>>; the ray *)
(* that hits a container meets the drag plane at the container's place     *)
(* plus a grab offset.  A pointer-move is the pair <<point, clientY>>.     *)
(***************************************************************************)
GrabPoint(hit, off) ==
    IF hit = NoContainer THEN [x |-> off.x, z |-> off.z]
    ELSE [x |-> containers[hit].position.x + off.x,
          z |-> containers[hit].position.z + off.z]

PointerDown(buttons, downs, xs, offs) ==
    \E b \in buttons, d \in downs, x \in xs, off \in offs :
        onMouseDown(b, d[1], x, d[2], GrabPoint(d[1], off))

PointerMove(moves, xs) ==
    \E m \in moves, x \in xs : onMouseMove(x, m[2], m[1])

Frame(gaps, draws) == \E gap \in gaps, rnd \in draws : animate(gap, rnd)

Draw(spawn, jitter, splashCount, splash) ==
    [spawn |-> spawn, jitter |-> jitter, splashCount |-> splashCount, splash |-> splash]
Pt(x, z) == [x |-> x, z |-> z]

\* used counts the pointer and reset events and the frames of a run, for the
\* specifications that bound them; no handler reads it
CountEvent(max) == used.events < max /\ used' = [used EXCEPT !.events = @ + 1]
CountFrame(max) == used.frames < max /\ used' = [used EXCEPT !.frames = @ + 1]

MaxEvents == 4
MaxFrames == 4

\* Default specification: a bounded number of pointer events and frames.  The
\* beaker is grabbed at clientY 200 and the flask at 69.  Moving to clientY 69
\* tilts the beaker to 90 degrees (131 pixels up, to the nearest pixel), and at
\* x = 5.8 its spout is over the flask's centre; moving to clientY 135 tilts it
\* to 45 degrees, and at x = 3.79 its spout is over the flask's centre; moving
\* to clientY 200 tilts the flask backwards to the lower clamp.  A frame's gap
\* is 0 (two frames with one clock reading), 0.1 s or 0.25 s.
Next ==
    \/ Frame({0, DeltaTimeCap, 25}, {Draw(0, 500, 0, 500)}) /\ CountFrame(MaxFrames)
    \/ /\ PointerDown({0, 2}, {<<"Beaker", 200>>, <<"Erlenmeyer", 69>>, <<NoContainer, 200>>},
                      {300}, {Pt(0, 0)})
       /\ CountEvent(MaxEvents)
    \/ /\ PointerMove({<<Pt(-25000, 0), 200>>, <<Pt(58000, 0), 69>>, <<Pt(37900, 0), 135>>},
                      {300})
       /\ CountEvent(MaxEvents)
    \/ onMouseUp /\ CountEvent(MaxEvents)
    \/ resetClick /\ CountEvent(MaxEvents)

Spec == Init /\ [][Next]_vars

\* No handler gives a container a rotation about x: onMouseMove sets it to 0 and
\* the return animation moves it from 0 to 0.  getTiltAngle rests on this.
RotationXIsZero == \A n \in Names : containers[n].rotation.x = 0

\* the tilt is 90 degrees to the nearest pixel of pointer travel
At90(c) == Abs(getTiltAngle(c) - PiOver2) <= rotationSpeed \div 2

\* the spout of source is horizontally within the capture radius of container n
\* (1.5 times the opening radius: 1.35 for the beaker, 0.32 for the flask)
SpoutWithinCapture(source, n) ==
    LET spout == getPourSpoutWorldPosition(containers[source])
        dx == Abs(spout.x - containers[n].position.x)
        dz == Abs(spout.z - containers[n].position.z)
        reach == IF n = "Beaker" THEN 20250 ELSE 4800
    IN  dx < reach /\ dz < reach /\ dx * dx + dz * dz < reach * reach

Other(n) == IF n = "Beaker" THEN "Erlenmeyer" ELSE "Beaker"

\* what a frame took from and gave to container n
Lost(n) == trace.before[n] - containers[n].currentVolume
Gained(n) == containers[n].currentVolume - trace.before[n]

C8_TargetFoundAt90 ==
    (/\ trace.op = "animate"
     /\ trace.source # NoContainer
     /\ At90(containers[trace.source])
     /\ SpoutWithinCapture(trace.source, Other(trace.source)))
       => /\ trace.target = Other(trace.source)
          /\ 10 * Gained(Other(trace.source)) = 9 * Lost(trace.source)

\* C9 (as stated): every frame whose source is held at 90 degrees with no target
\* strictly lowers the source's volume, changes no other volume, tests no droplet
\* against a target and makes no splash on a target
C9_EveryFrameLowersVolume ==
    (/\ trace.op = "animate"
     /\ trace.source # NoContainer
     /\ At90(containers[trace.source])
     /\ trace.target = NoContainer)
       => /\ Lost(trace.source) > 0
          /\ Lost(Other(trace.source)) = 0
          /\ trace.tested = 0
          /\ trace.targetSplashes = 0

\* C9 (amended): the same for every frame with deltaTime > 0; a frame with
\* deltaTime = 0 leaves the source's volume as it was
C9_FrameWithTimeLowersVolume ==
    (/\ trace.op = "animate"
     /\ trace.source # NoContainer
     /\ At90(containers[trace.source])
     /\ trace.target = NoContainer)
       => /\ deltaTime > 0 => Lost(trace.source) > 0
          /\ deltaTime = 0 => Lost(trace.source) = 0
          /\ Lost(Other(trace.source)) = 0
          /\ trace.tested = 0
          /\ trace.targetSplashes = 0

\* the beaker is held at 90 degrees with no target, the frame lowered its volume
\* and a droplet made a splash burst at the floor
C9_FloorSplashAt90 ==
    /\ trace.op = "animate"
    /\ trace.source = "Beaker"
    /\ At90(containers["Beaker"])
    /\ trace.target = NoContainer
    /\ deltaTime > 0
    /\ Lost("Beaker") > 0
    /\ trace.floorSplashes > 0
    /\ Len(liquidStream.splashParticles) > 0

(***************************************************************************)
(* SpecDrain: the beaker is grabbed, tilted to 90 degrees where it stands  *)
(* (no target) and held or released while frames of 0.1 s pass.            *)
(***************************************************************************)
MaxDrainEvents == 3
MaxDrainFrames == 30

NextDrain ==
    \/ Frame({DeltaTimeCap}, {Draw(0, 500, 0, 500)}) /\ CountFrame(MaxDrainFrames)
    \/ PointerDown({0}, {<<"Beaker", 200>>}, {300}, {Pt(0, 0)}) /\ CountEvent(MaxDrainEvents)
    \/ PointerMove({<<Pt(-25000, 0), 69>>}, {300}) /\ CountEvent(MaxDrainEvents)
    \/ onMouseUp /\ CountEvent(MaxDrainEvents)

SpecDrain == Init /\ [][NextDrain]_vars

\* C6 (as stated): in a frame with a pouring source the source loses exactly
\* rate x deltaTime (10 x rate x time in volume units), whatever its volume
C6_SourceLosesRateTimesDelta ==
    (trace.op = "animate" /\ trace.source # NoContainer) =>
       Lost(trace.source) = 10 * trace.pourRate * deltaTime

\* C6 (amended): the source loses rate x deltaTime when it holds that much, and
\* all it holds otherwise
C6_SourceLosesWhatItHolds ==
    (trace.op = "animate" /\ trace.source # NoContainer) =>
       /\ trace.before[trace.source] > 0
       /\ Lost(trace.source) =
             IF trace.before[trace.source] >= 10 * trace.pourRate * deltaTime
             THEN 10 * trace.pourRate * deltaTime
             ELSE trace.before[trace.source]

\* the source held less than rate x deltaTime and the frame emptied it
C6_SourceRanEmpty ==
    /\ trace.op = "animate"
    /\ trace.source = "Beaker"
    /\ trace.before["Beaker"] > 0
    /\ trace.before["Beaker"] < 10 * trace.pourRate * deltaTime
    /\ containers["Beaker"].currentVolume = 0

(***************************************************************************)
(* SpecCap: the beaker is grabbed and tilted to 90 or to 45 degrees where  *)
(* it stands, and frames follow one another with no time between them (two *)
(* readings of the clock that agree: deltaTime = 0), so that droplets are  *)
(* spawned and none falls.  The spawn draw is 0 or 0.999, which is above   *)
(* the spawn chance at 45 degrees.  The frames need no bound: a frame that *)
(* finds maxParticles droplets spawns none.                                *)
(***************************************************************************)
MaxCapEvents == 2

NextCap ==
    \/ Frame({0}, {Draw(0, 500, 0, 500), Draw(999, 500, 0, 500)}) /\ UNCHANGED used
    \/ PointerDown({0}, {<<"Beaker", 200>>}, {300}, {Pt(0, 0)}) /\ CountEvent(MaxCapEvents)
    \/ /\ PointerMove({<<Pt(-25000, 0), 69>>, <<Pt(-25000, 0), 135>>}, {300})
       /\ CountEvent(MaxCapEvents)
    \/ onMouseUp /\ CountEvent(MaxCapEvents)

SpecCap == Init /\ [][NextCap]_vars

\* C10: the stream never holds more than maxParticles droplets; a frame spawns
\* at most one droplet, and only when it found fewer than maxParticles
C10_ParticlesCapped ==
    /\ Len(liquidStream.particles) <= maxParticles
    /\ trace.op = "animate" =>
          /\ trace.spawned <= 1
          /\ trace.spawned = 1 => trace.particlesBefore < maxParticles
          /\ Len(liquidStream.particles) <= trace.particlesBefore + trace.spawned

\* the stream holds maxParticles droplets and a frame of the pouring beaker,
\* whose spawn draw passed, spawned none
C10_NoSpawnAtCap ==
    /\ Len(liquidStream.particles) = maxParticles
    /\ trace.op = "animate"
    /\ trace.source = "Beaker"
    /\ trace.particlesBefore = maxParticles
    /\ trace.spawned = 0

(***************************************************************************)
(* The container's methods called directly.  SpecContainer starts from a   *)
(* pair of containers whose rotation about z and whose volume are drawn    *)
(* from bounded sets, and calls setVolume, addVolume and the three queries *)
(* getTiltAngle, canPour and getPourRate; the reset button is the one      *)
(* caller of setVolume in the program.                                     *)
(***************************************************************************)
\* the tilt at which (tilt - pi/6) / (pi/2) * 80 reaches 60: pi/6 + 3/4 * pi/2
FullRateTilt == PourThreshold + (3 * PiOver2) \div 4
Deg120 == (2 * Pi) \div 3

BeakerTilts ==
    {minTilt, 0, PourThreshold - 1, PourThreshold, PourThreshold + 1, PiOver4,
     PiOver2, FullRateTilt - 1, FullRateTilt, FullRateTilt + 1, maxTilt,
     Deg120 - 1, Deg120, Pi, -Pi, -PiOver2, 3 * PiOver2}
FlaskTilts == {0, PiOver4, PiOver2, Deg120}
BeakerVolumes == {0, 150 * mL}
VolumeRequests == {-50 * mL, 100 * mL, 300 * mL}
VolumeDeltas == {-200 * mL, 50 * mL, 200 * mL}

InitContainer ==
    /\ \E bz \in BeakerTilts, fz \in FlaskTilts, bv \in BeakerVolumes :
          containers =
             [n \in Names |->
                IF n = "Beaker"
                THEN [newContainer(n, bv, -25000) EXCEPT !.rotation.z = bz]
                ELSE [newContainer(n, 100 * mL, 25000) EXCEPT !.rotation.z = fz]]
    /\ interactionManager = newInteractionManager
    /\ liquidStream = newLiquidStream
    /\ pourManager = [pouringContainer |-> NoContainer]
    /\ deltaTime = 0
    /\ trace = NoTrace("init")
    /\ used = [events |-> 0, frames |-> 0]
    /\ nuclearLab = newNuclearLab

callSetVolume(n, volume) ==
    /\ containers' = [containers EXCEPT ![n] = setVolume(@, volume)]
    /\ trace' = [NoTrace("setVolume") EXCEPT
                    !.source = n, !.request = volume,
                    !.before = [m \in Names |-> containers[m].currentVolume]]
    /\ UNCHANGED <<interactionManager, liquidStream, pourManager, deltaTime, used,
                   nuclearLab>>

callAddVolume(n, amount) ==
    /\ containers' = [containers EXCEPT ![n] = addVolume(@, amount)]
    /\ trace' = [NoTrace("addVolume") EXCEPT
                    !.source = n, !.request = amount,
                    !.before = [m \in Names |-> containers[m].currentVolume]]
    /\ UNCHANGED <<interactionManager, liquidStream, pourManager, deltaTime, used,
                   nuclearLab>>

callQueries ==
    /\ trace' = [NoTrace("query") EXCEPT
                    !.api = [n \in Names |->
                               [tiltAngle |-> getTiltAngle(containers[n]),
                                canPour |-> canPour(containers[n]),
                                pourRate |-> getPourRate(containers[n])]]]
    /\ UNCHANGED <<containers, interactionManager, liquidStream, pourManager,
                   deltaTime, used, nuclearLab>>

NextContainer ==
    \/ \E n \in Names, v \in VolumeRequests : callSetVolume(n, v)
    \/ \E n \in Names, d \in VolumeDeltas : callAddVolume(n, d)
    \/ callQueries
    \/ resetClick /\ UNCHANGED used

SpecContainer == InitContainer /\ [][NextContainer]_vars

\* the value a request is clamped to, stated without the code's min and max
InRange(v) == IF v < 0 THEN 0 ELSE IF v > maxVolume THEN maxVolume ELSE v

\* C1: every container's volume is within [0, maxVolume] in every state, and a
\* setVolume / addVolume request outside the range stores the nearer end of it
C1_VolumeClamped ==
    /\ \A n \in Names : /\ containers[n].currentVolume >= 0
                        /\ containers[n].currentVolume <= maxVolume
    /\ trace.op = "setVolume" =>
          containers[trace.source].currentVolume = InRange(trace.request)
    /\ trace.op = "addVolume" =>
          containers[trace.source].currentVolume =
             InRange(trace.before[trace.source] + trace.request)
    /\ trace.op = "resetClick" =>
          /\ containers["Beaker"].currentVolume = 150 * mL
          /\ containers["Erlenmeyer"].currentVolume = 100 * mL

\* a request below zero was made and zero was stored
C1_NegativeRequestStoredZero ==
    /\ trace.op = "addVolume"
    /\ trace.before[trace.source] > 0
    /\ trace.before[trace.source] + trace.request < 0
    /\ containers[trace.source].currentVolume = 0

\* C2: canPour() is true exactly when the tilt angle is above 30 degrees and the
\* volume is above 0
C2_CanPourIff ==
    trace.op = "query" =>
       \A n \in Names :
          trace.api[n].canPour <=>
             (trace.api[n].tiltAngle > PourThreshold /\ containers[n].currentVolume > 0)

\* the queries ran on a full container tilted to exactly 30 degrees: it cannot pour
C2_FalseAtThirtyDegrees ==
    /\ trace.op = "query"
    /\ containers["Beaker"].rotation.z = PourThreshold
    /\ containers["Beaker"].currentVolume > 0
    /\ ~trace.api["Beaker"].canPour
    /\ trace.api["Erlenmeyer"].canPour

\* C3 (as stated): the rate is 0 below 30 degrees, stays below 60 for every tilt
\* below 120 degrees and is 60 from 120 degrees on
C3_FullRateAt120 ==
    trace.op = "query" =>
       \A n \in Names :
          /\ trace.api[n].tiltAngle < PourThreshold => trace.api[n].pourRate = 0
          /\ trace.api[n].tiltAngle < Deg120 => trace.api[n].pourRate < MaxPourRate
          /\ trace.api[n].tiltAngle >= Deg120 => trace.api[n].pourRate = MaxPourRate

\* C3 (amended): the rate is 0 below 30 degrees, (tilt - 30) / 90 * 80 from 30 to
\* 97.5 degrees, where it reaches 60, and 60 from 97.5 degrees on
C3_FullRateAt97 ==
    trace.op = "query" =>
       \A n \in Names :
          /\ trace.api[n].tiltAngle < PourThreshold => trace.api[n].pourRate = 0
          /\ (trace.api[n].tiltAngle >= PourThreshold /\ trace.api[n].tiltAngle < FullRateTilt)
                => /\ trace.api[n].pourRate * (PiOver2 \div RateUnit) =
                         (trace.api[n].tiltAngle - PourThreshold) * PourRateFactor
                   /\ trace.api[n].pourRate < MaxPourRate
          /\ trace.api[n].tiltAngle >= FullRateTilt => trace.api[n].pourRate = MaxPourRate

\* the rate was asked just below 97.5 degrees, and at 97.5 degrees or above
C3_RateAroundFull ==
    /\ trace.op = "query"
    /\ trace.api["Beaker"].tiltAngle = FullRateTilt - 1
    /\ trace.api["Beaker"].pourRate > 0
    /\ trace.api["Beaker"].pourRate < MaxPourRate
    /\ trace.api["Erlenmeyer"].tiltAngle = Deg120
    /\ trace.api["Erlenmeyer"].pourRate = MaxPourRate

\* C4: above the threshold a larger tilt never gives a smaller rate, and the rate
\* is within [0, 60] for every tilt from 0 to 180 degrees
C4_RateMonotoneAndBounded ==
    trace.op = "query" =>
       /\ \A n, m \in Names :
             (/\ trace.api[n].tiltAngle > PourThreshold
              /\ trace.api[n].tiltAngle <= trace.api[m].tiltAngle)
                => trace.api[n].pourRate <= trace.api[m].pourRate
       /\ \A n \in Names :
             /\ trace.api[n].pourRate >= 0
             /\ trace.api[n].pourRate <= MaxPourRate

\* two tilts above the threshold with different rates, and a tilt of 180 degrees
C4_TwoRates ==
    /\ trace.op = "query"
    /\ trace.api["Erlenmeyer"].tiltAngle = PiOver4
    /\ trace.api["Beaker"].tiltAngle = Pi
    /\ trace.api["Erlenmeyer"].pourRate > 0
    /\ trace.api["Erlenmeyer"].pourRate < trace.api["Beaker"].pourRate

MaxReturnEvents == 4
MaxReturnFrames == 6

NextReturn ==
    \/ Frame({5, DeltaTimeCap}, {Draw(0, 500, 0, 500)}) /\ CountFrame(MaxReturnFrames)
    \/ /\ PointerDown({0}, {<<"Beaker", 200>>, <<"Erlenmeyer", 69>>}, {300}, {Pt(0, 0)})
       /\ CountEvent(MaxReturnEvents)
    \/ /\ PointerMove({<<Pt(-25000, 0), 69>>, <<Pt(25000, 0), 200>>}, {400})
       /\ CountEvent(MaxReturnEvents)
    \/ onMouseUp /\ CountEvent(MaxReturnEvents)

SpecReturn == Init /\ [][NextReturn]_vars

\* b lies between 0 and a
TowardZero(a, b) == (a >= 0 => (0 <= b /\ b <= a)) /\ (a <= 0 => (a <= b /\ b <= 0))

\* what a frame does to the rotation of container n
ReturnStep(n) ==
    LET a  == interactionManager.returnAnimations[n]
        r  == containers[n].rotation
        r2 == containers'[n].rotation
        a2 == interactionManager'.returnAnimations[n]
    IN  /\ a # NoAnimation =>
              /\ r2.y = r.y
              /\ r2.y = a.targetRotation.y
              /\ TowardZero(r.x, r2.x)
              /\ TowardZero(r.z, r2.z)
              /\ IF a.progress + deltaTime' >= returnDuration
                 THEN r2 = Vec(0, r.y, 0) /\ a2 = NoAnimation
                 ELSE a2 = [a EXCEPT !.progress = a.progress + deltaTime']
        /\ (a = NoAnimation /\ ~containers[n].isDragging) => (r2 = r /\ a2 = NoAnimation)

\* C11: after a release every frame moves pitch and roll toward 0 and never past
\* it, leaves the yaw at its release value, adds its deltaTime to the progress,
\* and the frame in which the progress reaches the duration (0.5 s) sets the
\* rotation to (0, yaw, 0) and ends the animation; after that frames leave the
\* rotation alone
C11_ReturnsUpright ==
    [][trace'.op = "animate" => \A n \in Names : ReturnStep(n)]_vars

\* the beaker, released at 90 degrees with a yaw, stands upright with that yaw
\* after a frame that ended its return animation
C11_BeakerUprightAgain ==
    /\ trace.op = "animate"
    /\ deltaTime > 0
    /\ ~containers["Beaker"].isDragging
    /\ interactionManager.returnAnimations["Beaker"] = NoAnimation
    /\ containers["Beaker"].rotation = Vec(0, 100 * yawSpeed, 0)

\* C12: a pointer-down that selects a container leaves it without a return
\* animation, and while the container is held (from that pointer-down to the
\* next pointer-up on it) no frame changes its rotation or gives it an animation
C12_DownCancelsReturn ==
    [][\A n \in Names :
          /\ (trace'.op = "onMouseDown" /\ interactionManager'.selectedContainer = n)
                => interactionManager'.returnAnimations[n] = NoAnimation
          /\ (trace'.op = "animate" /\ containers[n].isDragging)
                => /\ interactionManager'.returnAnimations[n] = NoAnimation
                   /\ containers'[n].rotation = containers[n].rotation]_vars

\* the beaker was grabbed again part of the way back from 90 degrees, and a
\* frame with time in it has left it at that tilt
C12_BeakerHeldPartWay ==
    /\ trace.op = "animate"
    /\ deltaTime > 0
    /\ containers["Beaker"].isDragging
    /\ containers["Beaker"].rotation.z > 0
    /\ containers["Beaker"].rotation.z < 131 * rotationSpeed

\* C13: right after a reset click the beaker stands at (-2.5, -1.9, 0) with
\* 150 mL, the flask at (2.5, -1.9, 0) with 100 mL, both upright with no yaw,
\* and the stream is idle with no droplets, no splash particles and no tube
C13_ResetRestores ==
    trace.op = "resetClick" =>
       /\ containers["Beaker"].position = Vec(-25000, -19000, 0)
       /\ containers["Beaker"].currentVolume = 150 * mL
       /\ containers["Erlenmeyer"].position = Vec(25000, -19000, 0)
       /\ containers["Erlenmeyer"].currentVolume = 100 * mL
       /\ \A n \in Names : containers[n].rotation = Vec(0, 0, 0)
       /\ ~liquidStream.isActive
       /\ liquidStream.particles = <<>>
       /\ liquidStream.splashParticles = <<>>
       /\ ~liquidStream.streamTube

\* a reset click while the beaker is held and has poured into the flask
C13_ResetAfterPouring ==
    /\ trace.op = "resetClick"
    /\ trace.before["Beaker"] < 150 * mL
    /\ trace.before["Erlenmeyer"] > 100 * mL
    /\ containers["Beaker"].isDragging

(***************************************************************************)
(* SpecLife: the pointer events and frames of SpecReturn, and reset clicks.*)
(***************************************************************************)
NextLife ==
    \/ NextReturn
    \/ resetClick /\ CountEvent(MaxReturnEvents)

SpecLife == Init /\ [][NextLife]_vars

\* the three conditions of a container
Returning(n) == interactionManager.returnAnimations[n] # NoAnimation
Dragging(n) == containers[n].isDragging
Idle(n) == ~Dragging(n) /\ ~Returning(n)

\* the steps of container n allowed between its conditions, with the event that
\* makes each of them
Moves(n) ==
    /\ (Idle(n) /\ ~Idle(n)') => (Dragging(n)' /\ trace'.op = "onMouseDown")
    /\ (Dragging(n) /\ ~Dragging(n)') => (Returning(n)' /\ trace'.op = "onMouseUp")
    /\ (Returning(n) /\ ~Returning(n)') =>
           \/ Dragging(n)' /\ trace'.op = "onMouseDown"
           \/ /\ Idle(n)' /\ trace'.op = "animate"
              /\ interactionManager.returnAnimations[n].progress + deltaTime' >= returnDuration
    /\ (~Returning(n) /\ Returning(n)') => (Dragging(n) /\ trace'.op = "onMouseUp")

\* C14: no container is both flagged isDragging and in returnAnimations, and a
\* container goes from idle to dragging by a pointer-down, from dragging to
\* returning by a pointer-up, and from returning to idle by the frame in which
\* the progress reaches the duration or back to dragging by a pointer-down
C14_IdleDraggingReturning ==
    /\ [](\A n \in Names : ~(Dragging(n) /\ Returning(n)))
    /\ [][\A n \in Names : Moves(n)]_vars

\* the beaker is idle again after a frame that ended its return, having been
\* dragged to 90 degrees
C14_BeakerIdleAgain ==
    /\ trace.op = "animate"
    /\ Idle("Beaker")
    /\ containers["Beaker"].rotation.y # 0
    /\ Dragging("Erlenmeyer")

\* a frame that starts now finds a container with canPour() and isDragging (a
\* held container has no return animation, so the frame's animation step leaves
\* it as it is)
FindsPouring == \E n \in Names : containers[n].isDragging /\ canPour(containers[n])

\* C15: after every frame the stream is active exactly if the frame found a
\* pouring container, and pouringContainer is set exactly then; the stream
\* becomes active only in such a frame and becomes idle only in a frame that
\* finds none or by a reset click
C15_ActiveIffPouring ==
    [][/\ trace'.op = "animate" =>
            /\ liquidStream'.isActive <=> FindsPouring
            /\ (pourManager'.pouringContainer # NoContainer) <=> FindsPouring
       /\ (~liquidStream.isActive /\ liquidStream'.isActive) =>
            (trace'.op = "animate" /\ FindsPouring)
       /\ (liquidStream.isActive /\ ~liquidStream'.isActive) =>
            \/ trace'.op = "animate" /\ ~FindsPouring
            \/ trace'.op = "resetClick"]_vars

\* the stream is active after a frame that found the held beaker pouring
C15_ActiveWhilePouring ==
    /\ trace.op = "animate"
    /\ liquidStream.isActive
    /\ pourManager.pouringContainer = "Beaker"
    /\ containers["Beaker"].isDragging
    /\ containers["Beaker"].currentVolume < trace.before["Beaker"]

\* C16: an idle stream has no stream tube, and a tube comes into being only in
\* a frame (inside LiquidStream.update) that leaves the stream active
C16_NoTubeWhenIdle ==
    /\ [](~liquidStream.isActive => ~liquidStream.streamTube)
    /\ [][(~liquidStream.streamTube /\ liquidStream'.streamTube) =>
             (trace'.op = "animate" /\ liquidStream.isActive')]_vars

\* a frame has stopped a stream that had a tube and droplets: the droplets are
\* still there, the tube is not
C16_StoppedWithDroplets ==
    /\ trace.op = "animate"
    /\ ~liquidStream.isActive
    /\ ~liquidStream.streamTube
    /\ Len(liquidStream.particles) > 0

\* C17: a frame with time in it integrates the droplets of an idle stream (each
\* droplet in flight moves, ages, and is removed at impact, timeout or floor),
\* so the list of droplets of an idle stream does not stay as it was
C17_IdleDropletsFinish ==
    [][(/\ trace'.op = "animate"
        /\ deltaTime' > 0
        /\ ~liquidStream.isActive
        /\ ~liquidStream'.isActive
        /\ liquidStream.particles # <<>>)
          => liquidStream'.particles # liquidStream.particles]_vars

\* the height of the top of container n: 3.3 above its base for the beaker, 3.9
\* for the flask
TopOf(n) == containers[n].position.y + (IF n = "Beaker" THEN 33000 ELSE 39000)

\* C18: a frame finds a target only if the target is not the source, the spout
\* of the source is horizontally within the target's radius threshold, and the
\* spout is higher than the target's top
C18_TargetOnlyUnderSpout ==
    (trace.op = "animate" /\ trace.target # NoContainer) =>
       /\ trace.target # trace.source
       /\ SpoutWithinCapture(trace.source, trace.target)
       /\ getPourSpoutWorldPosition(containers[trace.source]).y > TopOf(trace.target)

\* A frame's droplets.  Moved(i) is droplet i of the list after the frame's
\* gravity and motion; the stream's target and the containers are those the
\* frame's LiquidStream.update sees.
Moved(i) == integrate(liquidStream.particles[i], deltaTime')
Enters(q) ==
    /\ liquidStream'.targetContainer # NoContainer
    /\ insideTarget(containers'[liquidStream'.targetContainer], q.position)
Below(q) == q.position.y < tableY
Due(q) == Enters(q) \/ Below(q) \/ q.life >= particleMaxLife
InFlight(q) == ~Due(q)
\* the droplets of the list that stay in flight, in order
StillInFlight == SelectSeq([i \in 1..Len(liquidStream.particles) |-> Moved(i)], InFlight)
\* the droplets of the list that enter the target's bounds or pass the floor
Impacts ==
    Cardinality({i \in 1..Len(liquidStream.particles) : Enters(Moved(i)) \/ Below(Moved(i))})
\* the splash particles the frame added: those after it less the old ones that
\* outlive it
NewSplashParticles ==
    Len(liquidStream'.splashParticles)
      - Cardinality({j \in 1..Len(liquidStream.splashParticles) :
                        liquidStream.splashParticles[j].life + deltaTime'
                           < liquidStream.splashParticles[j].maxLife})
\* the droplet spawned by the frame and removed by it: 1 or 0
SpawnedAndGone == trace'.spawned - (Len(liquidStream'.particles) - Len(StillInFlight))
\* the splash particles of one burst under the draw of the specifications
BurstSize == Len(createSplash(Vec(0, 0, 0), Draw(0, 500, 0, 500)))

\* C19: a frame that updates the active stream leaves of its droplets exactly
\* those that have not entered the target's bounds, reached the max age or
\* passed the floor, followed by the droplet it spawned if that is still in
\* flight; it adds one splash burst for each droplet that entered the target
\* or passed the floor and none for any other; the droplets it leaves are
\* younger than the max age and not below the floor
C19_DropletsRemovedOnce ==
    [][(trace'.op = "animate" /\ liquidStream'.isActive) =>
          /\ SubSeq(liquidStream'.particles, 1, Len(StillInFlight)) = StillInFlight
          /\ SpawnedAndGone \in {0, 1}
          /\ SpawnedAndGone <= trace'.spawned
          /\ NewSplashParticles = BurstSize * (Impacts + SpawnedAndGone)
          /\ \A j \in 1..Len(liquidStream'.particles) :
                /\ liquidStream'.particles[j].life < particleMaxLife
                /\ liquidStream'.particles[j].position.y >= tableY]_vars

\* a frame removed a droplet that passed the floor, with one splash burst,
\* and left a younger droplet in flight
C19_FloorBurstOneInFlight ==
    /\ trace.op = "animate"
    /\ liquidStream.isActive
    /\ trace.floorSplashes = 1
    /\ trace.targetSplashes = 0
    /\ Len(liquidStream.particles) > 0
    /\ Len(liquidStream.particles) < trace.particlesBefore + trace.spawned

(***************************************************************************)
(* SpecTable: drags of both containers over and beyond the table.  The     *)
(* drag point of a move is at the beaker's start, 12 to the right, 12 to   *)
(* the left and 7 to the front, or 9 to the back; the container is grabbed *)
(* at its axis or 0.5 off it, at clientY 200; the moves are to clientY 200 *)
(* (no tilt), 300 (100 pixels down: the lower clamp), 0 (200 pixels up:    *)
(* the upper clamp) and 135 (65 pixels up: 45 degrees), at clientX 300 or  *)
(* 400.  Frames of 0.1 s, releases and reset clicks come in between.       *)
(***************************************************************************)
\* new THREE.BoxGeometry(20, 0.3, 12), centred at x = 0, z = 0
tableWidth == 200000
tableDepth == 120000

MaxTableEvents == 4
MaxTableFrames == 2

NextTable ==
    \/ Frame({DeltaTimeCap}, {Draw(0, 500, 0, 500)}) /\ CountFrame(MaxTableFrames)
    \/ /\ PointerDown({0}, {<<"Beaker", 200>>, <<"Erlenmeyer", 200>>}, {300},
                      {Pt(0, 0), Pt(5000, -5000)})
       /\ CountEvent(MaxTableEvents)
    \/ /\ PointerMove({<<Pt(-25000, 0), 200>>, <<Pt(120000, 0), 300>>,
                        <<Pt(-120000, 70000), 0>>, <<Pt(0, -90000), 135>>}, {300, 400})
       /\ CountEvent(MaxTableEvents)
    \/ onMouseUp /\ CountEvent(MaxTableEvents)
    \/ resetClick /\ CountEvent(MaxTableEvents)

SpecTable == Init /\ [][NextTable]_vars

\* C20: the x and z of every container stay within the footprint of the table,
\* the 20 x 12 box centred at the origin
C20_StaysOnTable ==
    \A n \in Names :
       /\ 2 * Abs(containers[n].position.x) <= tableWidth
       /\ 2 * Abs(containers[n].position.z) <= tableDepth

\* what a pointer-move does to the rotation of the selected container
DragRotation ==
    LET sel == interactionManager.selectedContainer
        pointerX == interactionManager'.lastMouseX
        pointerY == interactionManager'.lastMouseY
        tilt == -(pointerY - interactionManager.initialMouseY) * rotationSpeed
    IN  containers'[sel].rotation =
           Vec(0,
               containers[sel].rotation.y
                  + Quot(3 * rotationSpeed * (pointerX - interactionManager.lastMouseX), 10),
               IF tilt < minTilt THEN minTilt ELSE IF tilt > maxTilt THEN maxTilt ELSE tilt)

\* C21: a pointer-move while dragging sets the selected container's tilt to
\* -(pointerY - initialPointerY) x 0.012 clamped to [-0.1, 0.55 pi], its pitch to
\* 0 and adds 0.3 x 0.012 x the horizontal pointer delta to its yaw; in every
\* state the tilt angle of every container is at most 0.55 pi
C21_TiltClamped ==
    /\ [](\A n \in Names : getTiltAngle(containers[n]) <= maxTilt)
    /\ [][(/\ trace'.op = "onMouseMove"
            /\ interactionManager.isDragging
            /\ interactionManager.selectedContainer # NoContainer) => DragRotation]_vars

\* the beaker is held at the upper clamp, 200 pixels above the grab, turned by
\* a move of 100 pixels to the right
C21_BeakerAtMaxTilt ==
    /\ trace.op = "onMouseMove"
    /\ interactionManager.selectedContainer = "Beaker"
    /\ interactionManager.lastMouseY - interactionManager.initialMouseY = -200
    /\ containers["Beaker"].rotation = Vec(0, 100 * yawSpeed, maxTilt)
    /\ getTiltAngle(containers["Beaker"]) = maxTilt

\* C22: the delta time of a frame is at most 0.1 s whatever the gap since the
\* frame before; the frame takes at most 60 x 0.1 = 6 mL from any container and
\* advances a return animation by at most 0.2 of its duration
C22_DeltaTimeCapped ==
    [][trace'.op = "animate" =>
          /\ deltaTime' <= DeltaTimeCap
          /\ deltaTime' <= trace'.gap
          /\ \A n \in Names :
                /\ containers[n].currentVolume - containers'[n].currentVolume <= 6 * mL
                /\ (/\ interactionManager.returnAnimations[n] # NoAnimation
                    /\ interactionManager'.returnAnimations[n] # NoAnimation)
                     => 5 * (interactionManager'.returnAnimations[n].progress
                               - interactionManager.returnAnimations[n].progress)
                          <= returnDuration]_vars

\* a frame 0.25 s after the one before it ran with 0.1 s: the held beaker lost
\* liquid and the released flask is 0.2 of the way through its return
C22_LongGapFrame ==
    /\ trace.op = "animate"
    /\ trace.gap = 25
    /\ deltaTime = DeltaTimeCap
    /\ trace.source = "Beaker"
    /\ trace.before["Beaker"] - containers["Beaker"].currentVolume > 5 * mL
    /\ interactionManager.returnAnimations["Erlenmeyer"] # NoAnimation
    /\ 5 * interactionManager.returnAnimations["Erlenmeyer"].progress = returnDuration

\* what a step leaves alone
VolumesUnchanged ==
    \A n \in Names : containers'[n].currentVolume = containers[n].currentVolume
ParticlesUnchanged ==
    /\ liquidStream'.particles = liquidStream.particles
    /\ liquidStream'.splashParticles = liquidStream.splashParticles
ReturnMapUnchanged ==
    interactionManager'.returnAnimations = interactionManager.returnAnimations
PointerEvent == trace'.op \in {"onMouseDown", "onMouseMove", "onMouseUp"}

\* the statement of C23 as the specification has it: outside a frame neither
\* the volumes nor the particle lists nor the return-animation map change
C23_OnlyFramesChange ==
    [][(PointerEvent \/ trace'.op = "resetClick") =>
          (VolumesUnchanged /\ ParticlesUnchanged /\ ReturnMapUnchanged)]_vars

\* C23: the pointer handlers leave the volumes and the particle lists as they
\* are and change the return-animation map at the selected container only: a
\* pointer-down and a pointer-move leave it without an entry, a pointer-up
\* gives it a new entry; the reset click leaves the map as it is (and changes
\* volumes and particle lists, C13)
C23_HandlersChangeReturnMap ==
    [][/\ PointerEvent => (VolumesUnchanged /\ ParticlesUnchanged)
       /\ trace'.op \in {"onMouseDown", "onMouseMove"} =>
             \A n \in Names :
                interactionManager'.returnAnimations[n] =
                   IF n = interactionManager'.selectedContainer THEN NoAnimation
                   ELSE interactionManager.returnAnimations[n]
       /\ trace'.op = "onMouseUp" =>
             \A n \in Names :
                interactionManager'.returnAnimations[n] =
                   IF n = interactionManager.selectedContainer
                   THEN [startRotation |-> containers[n].rotation,
                         targetRotation |-> Vec(0, containers[n].rotation.y, 0),
                         progress |-> 0, duration |-> returnDuration]
                   ELSE interactionManager.returnAnimations[n]
       /\ trace'.op = "resetClick" => ReturnMapUnchanged]_vars

\* a pointer-down has taken the beaker out of the map part of the way back to
\* upright (at a tilt no drag of the specification gives), with droplets in the
\* list and less than 150 mL in the beaker
C23_DownRemovedEntry ==
    /\ trace.op = "onMouseDown"
    /\ interactionManager.selectedContainer = "Beaker"
    /\ containers["Beaker"].rotation.z > 0
    /\ containers["Beaker"].rotation.z < 131 * rotationSpeed
    /\ containers["Beaker"].rotation.z # 65 * rotationSpeed
    /\ containers["Beaker"].currentVolume < 150 * mL
    /\ Len(liquidStream.particles) > 0

(***************************************************************************)
(* SpecPour: the beaker is grabbed and moved 84 pixels up (tilt 57.75      *)
(* degrees) to x = 4.517, where its spout is over the centre of the flask  *)
(* and higher than the flask's top less 1; it is held or released while    *)
(* frames of 0.1 s pass, enough of them to pour all of its 150 mL.         *)
(***************************************************************************)
MaxPourEvents == 3
MaxPourFrames == 64

NextPour ==
    \/ Frame({DeltaTimeCap}, {Draw(0, 500, 0, 500)}) /\ CountFrame(MaxPourFrames)
    \/ PointerDown({0}, {<<"Beaker", 200>>}, {300}, {Pt(0, 0)}) /\ CountEvent(MaxPourEvents)
    \/ PointerMove({<<Pt(45170, 0), 116>>}, {300}) /\ CountEvent(MaxPourEvents)
    \/ onMouseUp /\ CountEvent(MaxPourEvents)

SpecPour == Init /\ [][NextPour]_vars

TotalVolume == containers["Beaker"].currentVolume + containers["Erlenmeyer"].currentVolume

\* C24: in every frame the containers gain together no more than the source
\* loses, and no pointer event changes a volume: the sum of the volumes never
\* grows but by a reset click
C24_NoLiquidCreated ==
    [][/\ trace'.op # "resetClick" => TotalVolume' <= TotalVolume
       /\ trace'.op = "animate" =>
             \A n \in Names :
                containers'[n].currentVolume > containers[n].currentVolume =>
                   /\ trace'.source # NoContainer
                   /\ containers'[n].currentVolume - containers[n].currentVolume
                        <= containers[trace'.source].currentVolume
                             - containers'[trace'.source].currentVolume]_vars

(***************************************************************************)
(* SpecSwitch: either container is grabbed at clientY 200 and moved 131    *)
(* pixels up (90 degrees) to x = 0, z = 3, with releases and frames of     *)
(* 0.1 s in between: one container can be released and the other grabbed   *)
(* and tilted between two frames.                                          *)
(***************************************************************************)
MaxSwitchEvents == 5
MaxSwitchFrames == 2

NextSwitch ==
    \/ Frame({DeltaTimeCap}, {Draw(0, 500, 0, 500)}) /\ CountFrame(MaxSwitchFrames)
    \/ /\ PointerDown({0}, {<<"Beaker", 200>>, <<"Erlenmeyer", 200>>}, {300}, {Pt(0, 0)})
       /\ CountEvent(MaxSwitchEvents)
    \/ PointerMove({<<Pt(0, 30000), 69>>}, {300}) /\ CountEvent(MaxSwitchEvents)
    \/ onMouseUp /\ CountEvent(MaxSwitchEvents)

SpecSwitch == Init /\ [][NextSwitch]_vars

\* C25: after a frame that leaves the stream active, the stream's source is
\* the container the frame found pouring and drained
C25_StreamSourceIsPouring ==
    (trace.op = "animate" /\ liquidStream.isActive) =>
       /\ liquidStream.sourceContainer = trace.source
       /\ liquidStream.sourceContainer = pourManager.pouringContainer

\* C26: a container is flagged isDragging exactly if it is the selected
\* container, so at most one container is flagged, and none after a pointer-up
C26_DraggingIffSelected ==
    /\ \A n \in Names :
          containers[n].isDragging <=> (interactionManager.selectedContainer = n)
    /\ trace.op = "onMouseUp" => \A n \in Names : ~containers[n].isDragging

(***************************************************************************)
(* SpecHold: the beaker is grabbed, tilted to 90 degrees where it stands   *)
(* and held or released.  Frames of 0.1 s keep arriving while a held       *)
(* container can pour: requestAnimationFrame calls animate again after     *)
(* every frame (line 1247).  FramesKeepArriving asks for no more than weak *)
(* fairness of the frame action does: a frame that finds a container       *)
(* pouring is enabled and changes its volume.                              *)
(***************************************************************************)
MaxHoldEvents == 3

HoldFrame == Frame({DeltaTimeCap}, {Draw(0, 500, 0, 500)}) /\ UNCHANGED used

NextHold ==
    \/ HoldFrame
    \/ PointerDown({0}, {<<"Beaker", 200>>}, {300}, {Pt(0, 0)}) /\ CountEvent(MaxHoldEvents)
    \/ PointerMove({<<Pt(-25000, 0), 69>>}, {300}) /\ CountEvent(MaxHoldEvents)
    \/ onMouseUp /\ CountEvent(MaxHoldEvents)

FramesKeepArriving == []<>(~FindsPouring) \/ []<><<trace'.op = "animate">>_vars

SpecHold == Init /\ [][NextHold]_vars /\ FramesKeepArriving

\* container n is held at a tilt above 30 degrees
HeldTilted(n) == containers[n].isDragging /\ getTiltAngle(containers[n]) > PourThreshold

\* C27: a container held at a tilt above 30 degrees is emptied to exactly 0
\* unless it is let go before; once it is empty and still held, canPour() is
\* false, a frame leaves the stream idle and no step changes a volume
C27_HeldContainerRunsEmpty ==
    /\ \A n \in Names :
          HeldTilted(n) ~> (~HeldTilted(n) \/ containers[n].currentVolume = 0)
    /\ [][\A n \in Names :
            (HeldTilted(n) /\ containers[n].currentVolume = 0) =>
               /\ ~canPour(containers[n])
               /\ VolumesUnchanged
               /\ trace'.op = "animate" => ~liquidStream'.isActive]_vars

\* the beaker, still held at 90 degrees, is empty and a frame has stopped the
\* stream
C27_EmptyAndStopped ==
    /\ trace.op = "animate"
    /\ HeldTilted("Beaker")
    /\ containers["Beaker"].currentVolume = 0
    /\ trace.before["Beaker"] = 0
    /\ ~liquidStream.isActive
    /\ pourManager.pouringContainer = NoContainer

AllUpright == \A n \in Names : containers[n].rotation = Vec(0, 0, 0)

\* C28: the frame after a reset click leaves both containers at rotation
\* (0, 0, 0), and so does every frame after it that follows no pointer event
C28_UprightAfterReset ==
    [][(/\ trace'.op = "animate"
        /\ trace.op \in {"resetClick", "animate"}
        /\ AllUpright) => AllUpright']_vars

(***************************************************************************)
(* The nuclear reactions lab: fission animation, reset, render loop.       *)
(***************************************************************************)
\* Array.prototype.slice(from, to) of a list, as the set of its elements
sliceSet(list, from, to) == {list[k] : k \in (from + 1)..Min(to, Len(list))}

\* the particles' indices sorted by x: the positions are random, so the order
\* is an input (as they are, reversed, or every second one)
SortOrders == {"ascending", "descending", "stride"}
sortedIndices(n, order) ==
    [k \in 1..n |->
        CASE order = "ascending" -> k
          [] order = "descending" -> n + 1 - k
          [] order = "stride" -> ((2 * k) % n) + 1]

product1ParticleCount(reaction, totalParticles) ==
    IF reaction.products[1] \in NucleusNames
    THEN nuclei[reaction.products[1]].Z + nuclei[reaction.products[1]].N
    ELSE (totalParticles * 6) \div 10

product2ParticleCount(reaction, totalParticles) ==
    IF reaction.products[2] \in NucleusNames
    THEN nuclei[reaction.products[2]].Z + nuclei[reaction.products[2]].N
    ELSE totalParticles - product1ParticleCount(reaction, totalParticles) - reaction.neutrons

\* what the closure of animateFission keeps: its reaction, its start time, the
\* number of original positions and the three index sets; id numbers the
\* accepted triggers
newSequence(lab, reactionType, order) ==
    LET reaction == fissionReactions[reactionType]
        totalParticles == Len(lab.particles)
        p1 == product1ParticleCount(reaction, totalParticles)
        p2 == product2ParticleCount(reaction, totalParticles)
        sorted == sortedIndices(totalParticles, order)
    IN  [id |-> lab.started + 1,
         reaction |-> reactionType,
         startTime |-> lab.now,
         originalCount |-> totalParticles,
         product1Indices |-> sliceSet(sorted, 0, p1),
         product2Indices |-> sliceSet(sorted, p1, p1 + p2),
         neutronIndices |-> sliceSet(sorted, p1 + p2, totalParticles)]

createProductLabels(lab, product1Name, product2Name, neutronCount) ==
    [lab EXCEPT !.productLabels =
        <<[name |-> product1Name], [name |-> product2Name], [neutrons |-> neutronCount]>>]

showFissionProducts(lab, seq) ==
    LET reaction == fissionReactions[seq.reaction]
        product1 == reaction.products[1]
        product2 == reaction.products[2]
        shown == [lab EXCEPT
                    !.nucleusSymbol = <<product1, product2>>,
                    !.nucleusDetails =
                        IF product1 \in NucleusNames /\ product2 \in NucleusNames
                        THEN [names |-> <<nuclei[product1].name, nuclei[product2].name>>,
                              neutrons |-> reaction.neutrons]
                        ELSE @]
    IN  [createProductLabels(shown, product1, product2, reaction.neutrons) EXCEPT
            !.timers = Append(@, [id |-> seq.id, due |-> lab.now + releaseDelay])]

\* the positions one frame callback writes: phase 1 moves every particle from
\* its original position (and throws at the first particle that has none),
\* phases 2 and 3 move the particles of the three index sets
movedBy(seq, progress, i, particle) ==
    IF progress < 300
    THEN IF i <= seq.originalCount THEN [particle EXCEPT !.moved = "vibrate"] ELSE particle
    ELSE CASE i \in seq.product1Indices ->
                [particle EXCEPT !.moved = IF progress < 600 THEN "left" ELSE "farLeft"]
           [] i \in seq.product2Indices ->
                [particle EXCEPT !.moved = IF progress < 600 THEN "right" ELSE "farRight"]
           [] i \in seq.neutronIndices ->
                [particle EXCEPT !.moved = IF progress < 600 THEN "out" ELSE "farOut"]
           [] OTHER -> particle

\* one call of the closure animateFissionFrame of the sequence seq
animateFissionFrame(lab, seq) ==
    LET progress == Min(((lab.now - seq.startTime) * 1000) \div duration, 1000)
        throws == progress < 300 /\ Len(lab.particles) > seq.originalCount
        moved == [lab EXCEPT
                    !.particles = [i \in 1..Len(lab.particles) |->
                                      movedBy(seq, progress, i, lab.particles[i])],
                    !.energyBurst = IF progress < 300 THEN @
                                    ELSE IF progress < 600 THEN (@ \/ progress < 330)
                                    ELSE FALSE]
    IN  IF throws THEN moved
        ELSE IF progress < 1000
             THEN [moved EXCEPT !.sequences = Append(@, seq)]
             ELSE showFissionProducts(moved, seq)

animateFission(lab, reactionType, order) ==
    animateFissionFrame([lab EXCEPT !.started = @ + 1],
                        newSequence(lab, reactionType, order))

triggerFission(lab, order) ==
    IF lab.isAnimating THEN lab
    ELSE IF lab.reactionSelect \notin ReactionNames THEN lab
    ELSE animateFission([lab EXCEPT
                            !.isAnimating = TRUE,
                            !.equationText = fissionReactions[lab.reactionSelect].equation],
                        lab.reactionSelect, order)

resetSimulation(lab) ==
    LET parentNucleus == IF lab.reactionSelect \in ReactionNames
                         THEN fissionReactions[lab.reactionSelect].parent
                         ELSE "U-235"
    IN  [updateUI(createNucleus([lab EXCEPT !.productLabels = <<>>], parentNucleus),
                  parentNucleus)
            EXCEPT !.isAnimating = FALSE]

\* the change handler of the reaction select
selectReaction(lab, value) ==
    IF value \in ReactionNames
    THEN [updateUI(createNucleus([lab EXCEPT !.reactionSelect = value],
                                 fissionReactions[value].parent),
                   fissionReactions[value].parent)
            EXCEPT !.equationText = fissionReactions[value].equation]
    ELSE [lab EXCEPT !.reactionSelect = value]

\* NuclearLab.animate(): the render loop's own callback
renderLoop(lab) ==
    IF ~lab.isAnimating THEN [lab EXCEPT !.rotationY = @ + idleRotation] ELSE lab

\* the frame callbacks of the running sequences, in the order they were requested
RECURSIVE runCallbacks(_, _)
runCallbacks(lab, pending) ==
    IF pending = <<>> THEN lab
    ELSE runCallbacks(animateFissionFrame(lab, Head(pending)), Tail(pending))

\* one animation frame of the browser, gap milliseconds after the last one
labFrame(lab, gap) ==
    runCallbacks([renderLoop(lab) EXCEPT !.now = @ + gap, !.sequences = <<>>],
                 lab.sequences)

\* the callback of the timer set by showFissionProducts
releaseTimer(lab, i) ==
    [lab EXCEPT
        !.isAnimating = FALSE,
        !.timers = [k \in 1..(Len(@) - 1) |-> IF k < i THEN @[k] ELSE @[k + 1]]]

Pouring == <<containers, interactionManager, liquidStream, pourManager, deltaTime>>

TriggerClick ==
    /\ \E order \in SortOrders : nuclearLab' = triggerFission(nuclearLab, order)
    /\ trace' = NoTrace("triggerFission")
    /\ UNCHANGED Pouring

ResetClick ==
    /\ nuclearLab' = resetSimulation(nuclearLab)
    /\ trace' = NoTrace("resetSimulation")
    /\ UNCHANGED Pouring

SelectChange ==
    /\ \E value \in ReactionNames \ {nuclearLab.reactionSelect} :
          nuclearLab' = selectReaction(nuclearLab, value)
    /\ trace' = NoTrace("selectReaction")
    /\ UNCHANGED Pouring

LabFrameGaps == {400, 1000}

LabFrame ==
    /\ \E gap \in LabFrameGaps : nuclearLab' = labFrame(nuclearLab, gap)
    /\ trace' = NoTrace("labFrame")
    /\ UNCHANGED Pouring

TimerFires ==
    /\ \E i \in 1..Len(nuclearLab.timers) :
          /\ nuclearLab.timers[i].due <= nuclearLab.now
          /\ nuclearLab' = releaseTimer(nuclearLab, i)
    /\ trace' = NoTrace("releaseTimer")
    /\ UNCHANGED <<Pouring, used>>

MaxLabEvents == 3
MaxLabFrames == 4

\* The lab: a bounded number of clicks and frames; a timer fires once a frame
\* has read a clock at or past its due time.
NextLab ==
    \/ TriggerClick /\ CountEvent(MaxLabEvents)
    \/ ResetClick /\ CountEvent(MaxLabEvents)
    \/ SelectChange /\ CountEvent(MaxLabEvents)
    \/ LabFrame /\ CountFrame(MaxLabFrames)
    \/ TimerFires

SpecLab == Init /\ [][NextLab]_vars

\* a sequence is in progress from its accepted trigger to its timer's callback
InProgress ==
    {nuclearLab.sequences[k].id : k \in 1..Len(nuclearLab.sequences)}
        \cup {nuclearLab.timers[k].id : k \in 1..Len(nuclearLab.timers)}

\* C29: at most one fission animation sequence is in progress at any time, and
\* isAnimating is true for as long as one is
C29_OneSequenceAtATime ==
    /\ Cardinality(InProgress) <= 1
    /\ InProgress # {} => nuclearLab.isAnimating

\* the three groups of a sequence are pairwise disjoint, cover every particle
\* the sequence started with, and the free-neutron group has as many particles
\* as the reaction declares
SplitsAsDeclared(seq) ==
    /\ seq.product1Indices \cap seq.product2Indices = {}
    /\ seq.product1Indices \cap seq.neutronIndices = {}
    /\ seq.product2Indices \cap seq.neutronIndices = {}
    /\ seq.product1Indices \cup seq.product2Indices \cup seq.neutronIndices
          = 1..seq.originalCount
    /\ Cardinality(seq.neutronIndices) = fissionReactions[seq.reaction].neutrons

\* C30: for every defined reaction animateFission splits the parent's particles
\* into three disjoint groups that cover them, and the free-neutron group has
\* the reaction's declared neutron count
C30_NeutronGroupAsDeclared ==
    \A k \in 1..Len(nuclearLab.sequences) : SplitsAsDeclared(nuclearLab.sequences[k])

====
